---- MODULE Spec2Model ----
(***************************************************************************)
(* Model of unitconverter.py: the unit tables, the temperature functions,  *)
(* the three per-category converters, the dispatcher detect_and_convert,   *)
(* the interactive loop and main.                                          *)
(*                                                                         *)
(* Text is modelled as sequences of one-character strings, so that         *)
(* str.strip, str.split, str.upper, str.lower and float() are computed and *)
(* not assumed.  A float is modelled as an exact number n/d * 10^e, or one *)
(* of +inf, -inf, nan; the rounding and the finite range of IEEE doubles   *)
(* are not modelled.                                                       *)
(***************************************************************************)
EXTENDS Integers, Sequences, FiniteSets, TLC

VARIABLES
    pc,        \* position of main: "start", "loop" (inside interactive), "done"
    argv,      \* the argument list main was called with
    event,     \* what the last input() gave: "none", "line", "eof", "interrupt"
    line,      \* the text the last input() returned, before strip
    out,       \* what the last operation (main, or one loop iteration) printed
    status,    \* the value returned by main (-1 while it has not returned)
    parsed,    \* how many times the last operation called float()
    calls,     \* the dispatcher calls of the last operation: <<value, from, to>>
    nread,     \* number of input() calls of the interactive session so far
    fn,        \* which function the function-level specification applied
    value,     \* its value argument
    from_u,    \* its from-unit argument
    to_u,      \* its to-unit argument
    res,       \* its result
    back       \* the result of converting res back (round trip)

vars == <<pc, argv, event, line, out, status, parsed, calls, nread,
          fn, value, from_u, to_u, res, back>>

cliVars == <<pc, argv, event, line, out, status, parsed, calls, nread>>
fnVars == <<fn, value, from_u, to_u, res, back>>

(***************************************************************************)
(* Bounds of the model.                                                    *)
(***************************************************************************)
MaxNum == 3      \* values are drawn with numerators in -MaxNum..MaxNum
MaxDen == 2      \* and denominators in 1..MaxDen
MaxArgs == 4     \* argument lists of up to MaxArgs arguments
MaxReads == 3    \* input() calls per interactive session

(***************************************************************************)
(* Text: str as a sequence of one-character strings.                       *)
(***************************************************************************)
Chars(s) == [i \in 1..Len(s) |-> SubSeq(s, i, i)]

LowerLetters == Chars("abcdefghijklmnopqrstuvwxyz")
UpperLetters == Chars("ABCDEFGHIJKLMNOPQRSTUVWXYZ")
Digits == Chars("0123456789")

IndexIn(c, seq) ==
    IF \E i \in 1..Len(seq) : seq[i] = c
    THEN CHOOSE i \in 1..Len(seq) : seq[i] = c
    ELSE 0

UpperChar(c) ==
    IF IndexIn(c, LowerLetters) > 0 THEN UpperLetters[IndexIn(c, LowerLetters)] ELSE c

LowerChar(c) ==
    IF IndexIn(c, UpperLetters) > 0 THEN LowerLetters[IndexIn(c, UpperLetters)] ELSE c

\* str.upper()
Upper(s) == [i \in 1..Len(s) |-> UpperChar(s[i])]

\* str.lower()
Lower(s) == [i \in 1..Len(s) |-> LowerChar(s[i])]

IsSpace(c) == c \in {" ", "\t"}

RECURSIVE LStrip(_)
LStrip(s) ==
    IF s = <<>> THEN <<>>
    ELSE IF IsSpace(Head(s)) THEN LStrip(Tail(s)) ELSE s

RECURSIVE RStrip(_)
RStrip(s) ==
    IF s = <<>> THEN <<>>
    ELSE IF IsSpace(s[Len(s)]) THEN RStrip(SubSeq(s, 1, Len(s) - 1)) ELSE s

\* str.strip()
Strip(s) == RStrip(LStrip(s))

\* str.split(): the maximal runs of non-whitespace characters, in order
RECURSIVE SplitFrom(_, _, _)
SplitFrom(s, cur, acc) ==
    IF s = <<>> THEN (IF cur = <<>> THEN acc ELSE Append(acc, cur))
    ELSE IF IsSpace(Head(s))
         THEN SplitFrom(Tail(s), <<>>, IF cur = <<>> THEN acc ELSE Append(acc, cur))
         ELSE SplitFrom(Tail(s), Append(cur, Head(s)), acc)

Split(s) == SplitFrom(s, <<>>, <<>>)

(***************************************************************************)
(* Numbers: n/d * 10^e with d > 0, gcd(n, d) = 1 and neither n nor d a     *)
(* multiple of 5 (so that the representation is unique and the table       *)
(* factors stay small); d = 0 encodes inf (n = 1), -inf (n = -1), nan      *)
(* (n = 0).                                                                *)
(***************************************************************************)
Num(n, d, e) == [n |-> n, d |-> d, e |-> e]

NaN == Num(0, 0, 0)
PosInf == Num(1, 0, 0)
NegInf == Num(-1, 0, 0)

IsNaN(x) == x.d = 0 /\ x.n = 0
IsInf(x) == x.d = 0 /\ x.n # 0
IsFinite(x) == x.d # 0

Abs(k) == IF k < 0 THEN -k ELSE k
Sign(k) == IF k < 0 THEN -1 ELSE IF k > 0 THEN 1 ELSE 0

RECURSIVE GCD(_, _)
GCD(a, b) == IF b = 0 THEN a ELSE GCD(b, a % b)

RECURSIVE Pow(_, _)
Pow(b, k) == IF k = 0 THEN 1 ELSE b * Pow(b, k - 1)

\* the number of times 5 divides k (k # 0)
RECURSIVE V5(_)
V5(k) == IF k % 5 = 0 THEN 1 + V5(k \div 5) ELSE 0

\* n/d * 10^e for coprime n and d
Reduce2(n, d, e) == Num(n \div GCD(Abs(n), d), d \div GCD(Abs(n), d), e)

\* n/d * 10^e with every factor 5 of n and of d moved into the power of ten
Reduce5(n, d, e) ==
    Reduce2((n \div Pow(5, V5(Abs(n)))) * Pow(2, V5(d)),
            (d \div Pow(5, V5(d))) * Pow(2, V5(Abs(n))),
            e + V5(Abs(n)) - V5(d))

\* the unique representation of n/d * 10^e (d > 0)
Norm(n, d, e) ==
    IF n = 0 THEN Num(0, 1, 0)
    ELSE Reduce5(n \div GCD(Abs(n), d), d \div GCD(Abs(n), d), e)

Whole(k) == Norm(k, 1, 0)
Dec(k, places) == Norm(k, 1, -places)

FNeg(x) == Num(-x.n, x.d, x.e)

\* the product of two finite non-zero numbers, g1 = gcd(x.n, y.d), g2 = gcd(y.n, x.d)
MulReduced(x, y, g1, g2) ==
    Num((x.n \div g1) * (y.n \div g2), (x.d \div g2) * (y.d \div g1), x.e + y.e)

\* float * float
FMul(x, y) ==
    IF IsNaN(x) \/ IsNaN(y) THEN NaN
    ELSE IF IsInf(x) \/ IsInf(y)
         THEN (IF x.n = 0 \/ y.n = 0 THEN NaN
               ELSE IF Sign(x.n) * Sign(y.n) > 0 THEN PosInf ELSE NegInf)
    ELSE IF x.n = 0 \/ y.n = 0 THEN Num(0, 1, 0)
    ELSE MulReduced(x, y, GCD(Abs(x.n), y.d), GCD(Abs(y.n), x.d))

\* float / float, for a finite non-zero divisor (every divisor of the program is a
\* positive literal or a positive table factor)
FDiv(x, y) == FMul(x, Num(Sign(y.n) * y.d, Abs(y.n), -y.e))

\* the sum of two finite numbers, e the smaller of their exponents
AddAligned(x, y, e) ==
    Norm(x.n * Pow(10, x.e - e) * y.d + y.n * Pow(10, y.e - e) * x.d, x.d * y.d, e)

\* float + float
FAdd(x, y) ==
    IF IsNaN(x) \/ IsNaN(y) THEN NaN
    ELSE IF IsInf(x) /\ IsInf(y) THEN (IF x.n = y.n THEN x ELSE NaN)
    ELSE IF IsInf(x) THEN x
    ELSE IF IsInf(y) THEN y
    ELSE AddAligned(x, y, IF x.e < y.e THEN x.e ELSE y.e)

\* float - float
FSub(x, y) == FAdd(x, FNeg(y))

(***************************************************************************)
(* Results of the converters: a returned float, or a raised ValueError.    *)
(***************************************************************************)
Ok(v) == [ok |-> TRUE, val |-> v, err |-> ""]
Raise(msg) == [ok |-> FALSE, val |-> NaN, err |-> msg]

(***************************************************************************)
(* The unit tables.                                                        *)
(***************************************************************************)
\* Faulty variant of LENGTH_TO_METER: "k" added as a second symbol for the kilometre.
LENGTH_TO_METER_with_k ==
    (Chars("m") :> Whole(1)) @@
    (Chars("km") :> Whole(1000)) @@
    (Chars("k") :> Whole(1000)) @@
    (Chars("cm") :> Dec(1, 2)) @@
    (Chars("mm") :> Dec(1, 3)) @@
    (Chars("mi") :> Dec(1609344, 3)) @@
    (Chars("yd") :> Dec(9144, 4)) @@
    (Chars("ft") :> Dec(3048, 4)) @@
    (Chars("in") :> Dec(254, 4))

LENGTH_TO_METER ==
    (Chars("m") :> Whole(1)) @@
    (Chars("km") :> Whole(1000)) @@
    (Chars("cm") :> Dec(1, 2)) @@
    (Chars("mm") :> Dec(1, 3)) @@
    (Chars("mi") :> Dec(1609344, 3)) @@
    (Chars("yd") :> Dec(9144, 4)) @@
    (Chars("ft") :> Dec(3048, 4)) @@
    (Chars("in") :> Dec(254, 4))

\* oz: 0.028349523125 = 45359237/16 * 10^-8
WEIGHT_TO_KG ==
    (Chars("kg") :> Whole(1)) @@
    (Chars("g") :> Dec(1, 3)) @@
    (Chars("mg") :> Dec(1, 6)) @@
    (Chars("lb") :> Dec(45359237, 8)) @@
    (Chars("oz") :> Norm(45359237, 16, -8)) @@
    (Chars("ton") :> Whole(1000))

(***************************************************************************)
(* The temperature functions.                                              *)
(***************************************************************************)
\* Faulty variant of c_to_f: the offset is forgotten.
c_to_f_no_offset(c) == FDiv(FMul(c, Whole(9)), Whole(5))

c_to_f(c) == FAdd(FDiv(FMul(c, Whole(9)), Whole(5)), Whole(32))

f_to_c(f) == FDiv(FMul(FSub(f, Whole(32)), Whole(5)), Whole(9))

c_to_k(c) == FAdd(c, Dec(27315, 2))

k_to_c(k) == FSub(k, Dec(27315, 2))

\* the keys of TEMP_FUNCS (and of each of its inner tables)
TEMP_KEYS == {Chars("C"), Chars("F"), Chars("K")}

\* TEMP_FUNCS[f][t](x), for f and t in TEMP_KEYS
TEMP_FUNCS(f, t, x) ==
    CASE f = Chars("C") /\ t = Chars("F") -> c_to_f(x)
      [] f = Chars("C") /\ t = Chars("K") -> c_to_k(x)
      [] f = Chars("C") /\ t = Chars("C") -> x
      [] f = Chars("F") /\ t = Chars("C") -> f_to_c(x)
      [] f = Chars("F") /\ t = Chars("K") -> c_to_k(f_to_c(x))
      [] f = Chars("F") /\ t = Chars("F") -> x
      [] f = Chars("K") /\ t = Chars("C") -> k_to_c(x)
      [] f = Chars("K") /\ t = Chars("F") -> c_to_f(k_to_c(x))
      [] f = Chars("K") /\ t = Chars("K") -> x

(***************************************************************************)
(* The per-category converters and the dispatcher.                         *)
(***************************************************************************)
\* Faulty variant of convert_length: the two factors are taken the wrong way round.
convert_length_swapped(v, f, t) ==
    IF f \notin DOMAIN LENGTH_TO_METER \/ t \notin DOMAIN LENGTH_TO_METER
    THEN Raise("Unsupported length unit")
    ELSE Ok(FDiv(FMul(v, LENGTH_TO_METER[t]), LENGTH_TO_METER[f]))

convert_length(v, f, t) ==
    IF f \notin DOMAIN LENGTH_TO_METER \/ t \notin DOMAIN LENGTH_TO_METER
    THEN Raise("Unsupported length unit")
    ELSE Ok(FDiv(FMul(v, LENGTH_TO_METER[f]), LENGTH_TO_METER[t]))

convert_weight(v, f, t) ==
    IF f \notin DOMAIN WEIGHT_TO_KG \/ t \notin DOMAIN WEIGHT_TO_KG
    THEN Raise("Unsupported weight unit")
    ELSE Ok(FDiv(FMul(v, WEIGHT_TO_KG[f]), WEIGHT_TO_KG[t]))

convert_temperature(v, f, t) ==
    IF Upper(f) \notin TEMP_KEYS \/ Upper(t) \notin TEMP_KEYS
    THEN Raise("Unsupported temperature unit")
    ELSE Ok(TEMP_FUNCS(Upper(f), Upper(t), v))

\* Faulty variant of detect_and_convert: one symbol of a table is enough to pick the
\* table's converter.
detect_and_convert_either(v, f, t) ==
    IF f \in DOMAIN LENGTH_TO_METER \/ t \in DOMAIN LENGTH_TO_METER
    THEN convert_length(v, f, t)
    ELSE IF f \in DOMAIN WEIGHT_TO_KG \/ t \in DOMAIN WEIGHT_TO_KG
    THEN convert_weight(v, f, t)
    ELSE IF Upper(f) \in TEMP_KEYS /\ Upper(t) \in TEMP_KEYS
    THEN convert_temperature(v, f, t)
    ELSE Raise("Units belong to different categories or are unsupported")

detect_and_convert(v, f, t) ==
    IF f \in DOMAIN LENGTH_TO_METER /\ t \in DOMAIN LENGTH_TO_METER
    THEN convert_length(v, f, t)
    ELSE IF f \in DOMAIN WEIGHT_TO_KG /\ t \in DOMAIN WEIGHT_TO_KG
    THEN convert_weight(v, f, t)
    ELSE IF Upper(f) \in TEMP_KEYS /\ Upper(t) \in TEMP_KEYS
    THEN convert_temperature(v, f, t)
    ELSE Raise("Units belong to different categories or are unsupported")

(***************************************************************************)
(* float(str): surrounding whitespace is stripped; an optional sign; then  *)
(* inf, infinity or nan in any letter case, or a decimal mantissa (digits  *)
(* with at most one point and at least one digit) with an optional         *)
(* exponent.  (Digit-group underscores and non-ASCII digits are outside    *)
(* the alphabet of the model.)                                             *)
(***************************************************************************)
AllDigits(s) == \A i \in 1..Len(s) : IndexIn(s[i], Digits) > 0

RECURSIVE DigitsVal(_)
DigitsVal(s) ==
    IF s = <<>> THEN 0
    ELSE DigitsVal(SubSeq(s, 1, Len(s) - 1)) * 10 + (IndexIn(s[Len(s)], Digits) - 1)

\* the first position of s holding a character of cs, or 0
FindChar(s, cs) ==
    IF \E i \in 1..Len(s) : s[i] \in cs
    THEN CHOOSE i \in 1..Len(s) : s[i] \in cs /\ \A j \in 1..(i - 1) : s[j] \notin cs
    ELSE 0

NotAFloat == Raise("could not convert string to float")

\* digits with an optional point: ip before the point, fp after it
ParseDecimal(ip, fp, expVal) ==
    IF AllDigits(ip) /\ AllDigits(fp) /\ Len(ip) + Len(fp) > 0
    THEN Ok(Norm(DigitsVal(ip \o fp), 1, expVal - Len(fp)))
    ELSE NotAFloat

ParseMantissa(mant, expVal) ==
    LET dot == FindChar(mant, {"."})
    IN  IF dot = 0 THEN ParseDecimal(mant, <<>>, expVal)
        ELSE ParseDecimal(SubSeq(mant, 1, dot - 1), SubSeq(mant, dot + 1, Len(mant)), expVal)

\* the exponent after e or E: an optional sign and at least one digit
ParseExponent(expo) ==
    LET signed == expo # <<>> /\ expo[1] \in {"+", "-"}
        digits == IF signed THEN Tail(expo) ELSE expo
    IN  IF digits # <<>> /\ AllDigits(digits)
        THEN [ok |-> TRUE,
              val |-> IF expo[1] = "-" THEN -DigitsVal(digits) ELSE DigitsVal(digits)]
        ELSE [ok |-> FALSE, val |-> 0]

ParseUnsigned(body) ==
    IF Lower(body) \in {Chars("inf"), Chars("infinity")} THEN Ok(PosInf)
    ELSE IF Lower(body) = Chars("nan") THEN Ok(NaN)
    ELSE LET ePos == FindChar(body, {"e", "E"})
         IN  IF ePos = 0 THEN ParseMantissa(body, 0)
             ELSE LET x == ParseExponent(SubSeq(body, ePos + 1, Len(body)))
                  IN  IF x.ok THEN ParseMantissa(SubSeq(body, 1, ePos - 1), x.val)
                      ELSE NotAFloat

Negated(r) == IF r.ok THEN Ok(FNeg(r.val)) ELSE r

ParseFloat(tok) ==
    LET s == Strip(tok)
    IN  IF s = <<>> THEN NotAFloat
        ELSE IF s[1] = "-" THEN Negated(ParseUnsigned(Tail(s)))
        ELSE IF s[1] = "+" THEN ParseUnsigned(Tail(s))
        ELSE ParseUnsigned(s)

(***************************************************************************)
(* Printed lines.  A line is a tuple whose first element names the print   *)
(* statement; a result line keeps the numbers and the format that was used *)
(* to print the result.                                                    *)
(***************************************************************************)
print_help ==
    << <<"__doc__">>,
       <<"Supported length units:">>,
       <<"Supported weight units:">>,
       <<"Supported temperature units: C, F, K">> >>

Banner == <<"Simple Unit Converter - type 'help' for units, 'exit' to quit">>
Usage == <<"Enter: <value> <from_unit> <to_unit>  (e.g. '100 cm m') or 'help'">>
InvalidNumber == <<"Invalid number">>
FirstArgMustBeNumber ==
    <<"First argument must be a number. Use: <value> <from_unit> <to_unit>">>
EmptyLine == <<"">>
ErrorLine(msg) == <<"Error:", msg>>
ResultLine(v, f, t, r, fmt) == <<"result", v, f, t, r, fmt>>

(***************************************************************************)
(* One iteration of the loop of interactive(), given what input() did:     *)
(* ev = "line" with the text l, or ev = "eof" / "interrupt" for the two    *)
(* exceptions caught at the read.  brk tells whether the loop was left.    *)
(***************************************************************************)
\* Faulty variant of EXIT_WORDS: quit is not recognized.
EXIT_WORDS_without_quit == {Chars("exit")}

EXIT_WORDS == {Chars("exit"), Chars("quit")}
HELP_WORDS == {Chars("help"), Chars("h"), Chars("?")}

Step(brk, o, np, cs) == [brk |-> brk, out |-> o, parsed |-> np, calls |-> cs]

\* the two prints of the last try block, r the outcome of detect_and_convert
interactive_report(v, f, t, r) ==
    IF r.ok
    THEN Step(FALSE, <<ResultLine(v, f, t, r.val, "repr")>>, 1, << <<v, f, t>> >>)
    ELSE Step(FALSE, <<ErrorLine(r.err)>>, 1, << <<v, f, t>> >>)

\* Faulty variant of interactive_convert: an invalid number leaves the loop.
interactive_convert_break(p, f, t) ==
    IF ~p.ok THEN Step(TRUE, <<InvalidNumber>>, 1, <<>>)
    ELSE interactive_report(p.val, f, t, detect_and_convert(p.val, f, t))

\* p the outcome of float(parts[0])
interactive_convert(p, f, t) ==
    IF ~p.ok THEN Step(FALSE, <<InvalidNumber>>, 1, <<>>)
    ELSE interactive_report(p.val, f, t, detect_and_convert(p.val, f, t))

\* Faulty variant of interactive_parts: more than three tokens are accepted.
interactive_parts_at_least_3(parts) ==
    IF Len(parts) < 3 THEN Step(FALSE, <<Usage>>, 0, <<>>)
    ELSE interactive_convert(ParseFloat(parts[1]), parts[2], parts[3])

interactive_parts(parts) ==
    IF Len(parts) # 3 THEN Step(FALSE, <<Usage>>, 0, <<>>)
    ELSE interactive_convert(ParseFloat(parts[1]), parts[2], parts[3])

\* raw the stripped line
interactive_raw(raw) ==
    IF raw = <<>> THEN Step(FALSE, <<>>, 0, <<>>)
    ELSE IF Lower(raw) \in EXIT_WORDS THEN Step(TRUE, <<>>, 0, <<>>)
    ELSE IF Lower(raw) \in HELP_WORDS THEN Step(FALSE, print_help, 0, <<>>)
    ELSE interactive_parts(Split(raw))

interactive_iteration(ev, l) ==
    IF ev # "line" THEN Step(TRUE, <<EmptyLine>>, 0, <<>>)
    ELSE interactive_raw(Strip(l))

(***************************************************************************)
(* main(argv) for a non-empty argument list.                               *)
(***************************************************************************)
HELP_ARGS == {Chars("-h"), Chars("--help"), Chars("help")}

Exit(st, o, np, cs) == [status |-> st, out |-> o, parsed |-> np, calls |-> cs]

\* r the outcome of detect_and_convert
main_report(v, f, t, r) ==
    IF ~r.ok THEN Exit(2, <<ErrorLine(r.err)>>, 1, << <<v, f, t>> >>)
    ELSE Exit(0, <<ResultLine(v, f, t, r.val, ".6g")>>, 1, << <<v, f, t>> >>)

\* Faulty variant of main_convert: the units are checked before the number.
main_convert_units_first(p, f, t) ==
    IF ~detect_and_convert(p.val, f, t).ok
    THEN Exit(2, <<ErrorLine(detect_and_convert(p.val, f, t).err)>>, 0, << <<p.val, f, t>> >>)
    ELSE IF ~p.ok THEN Exit(1, <<FirstArgMustBeNumber>>, 1, <<>>)
    ELSE main_report(p.val, f, t, detect_and_convert(p.val, f, t))

\* p the outcome of float(argv[0])
main_convert(p, f, t) ==
    IF ~p.ok THEN Exit(1, <<FirstArgMustBeNumber>>, 1, <<>>)
    ELSE main_report(p.val, f, t, detect_and_convert(p.val, f, t))

\* Faulty variant of main_single_shot: the units are the last two arguments.
main_single_shot_last_units(args) ==
    IF args[1] \in HELP_ARGS \/ Len(args) < 3 THEN Exit(0, print_help, 0, <<>>)
    ELSE main_convert(ParseFloat(args[1]), args[Len(args) - 1], args[Len(args)])

\* Faulty variant of main_single_shot: the number is parsed before the argument count
\* is looked at.
main_single_shot_parse_first(args) ==
    IF ~ParseFloat(args[1]).ok /\ args[1] \notin HELP_ARGS
    THEN Exit(1, <<FirstArgMustBeNumber>>, 1, <<>>)
    ELSE IF args[1] \in HELP_ARGS \/ Len(args) < 3 THEN Exit(0, print_help, 0, <<>>)
    ELSE main_convert(ParseFloat(args[1]), args[2], args[3])

main_single_shot(args) ==
    IF args[1] \in HELP_ARGS \/ Len(args) < 3 THEN Exit(0, print_help, 0, <<>>)
    ELSE main_convert(ParseFloat(args[1]), args[2], args[3])

(***************************************************************************)
(* The program as a state machine.                                         *)
(***************************************************************************)
ArgTexts ==
    {"100", "1.5", "abc", "-h", "--help", "help", "cm", "m", "kg", "F", "c", "xx"}

ArgTokens == {Chars(s) : s \in ArgTexts}

ArgLists == UNION {[1..k -> ArgTokens] : k \in 0..MaxArgs}

LineTexts ==
    {"", "   ", "exit", "QUIT", " Exit ", "help", "H", "?", " Help",
     "100 cm m", "2 kg lb", "32 f C", "  1.5   mi\tft ", "abc cm m", "1 cm kg",
     "1 xx m", "1 CM m", "100 cm", "1 2 3 4", "exit now", "help me please",
     "inf m km", "1e2 cm m", "nan C K", "cm"}

Lines == {Chars(s) : s \in LineTexts}

Init ==
    /\ pc = "start"
    /\ argv \in ArgLists
    /\ event = "none"
    /\ line = <<>>
    /\ out = <<>>
    /\ status = -1
    /\ parsed = 0
    /\ calls = <<>>
    /\ nread = 0
    /\ fn = "none" /\ value = NaN /\ from_u = <<>> /\ to_u = <<>>
    /\ res = [ok |-> FALSE, val |-> NaN, err |-> "none"]
    /\ back = [ok |-> FALSE, val |-> NaN, err |-> "none"]

\* main with arguments: the single-shot conversion, r what main_single_shot gives
Return(r) ==
    /\ status' = r.status
    /\ out' = r.out
    /\ parsed' = r.parsed
    /\ calls' = r.calls
    /\ pc' = "done"

MainSingleShot ==
    /\ pc = "start"
    /\ argv # <<>>
    /\ Return(main_single_shot(argv))
    /\ UNCHANGED <<argv, event, line, nread>>
    /\ UNCHANGED fnVars

\* main without arguments: interactive() is entered and prints its banner
MainInteractive ==
    /\ pc = "start"
    /\ argv = <<>>
    /\ pc' = "loop"
    /\ out' = <<Banner>>
    /\ UNCHANGED <<argv, event, line, status, parsed, calls, nread>>
    /\ UNCHANGED fnVars

\* one iteration of the loop, r what interactive_iteration gives; when the loop is
\* left, interactive() returns and main returns 0
Continue(r) ==
    /\ out' = r.out
    /\ parsed' = r.parsed
    /\ calls' = r.calls
    /\ pc' = IF r.brk THEN "done" ELSE "loop"
    /\ status' = IF r.brk THEN 0 ELSE status

Iterate(ev, l) ==
    /\ pc = "loop"
    /\ event' = ev
    /\ line' = l
    /\ nread' = nread + 1
    /\ Continue(interactive_iteration(ev, l))
    /\ UNCHANGED argv
    /\ UNCHANGED fnVars

\* input() returns a line
ReadLine ==
    /\ nread < MaxReads
    /\ \E l \in Lines : Iterate("line", l)

\* input() raises EOFError
ReadEOF ==
    /\ pc = "loop"
    /\ Iterate("eof", <<>>)

\* input() raises KeyboardInterrupt
ReadInterrupt ==
    /\ pc = "loop"
    /\ Iterate("interrupt", <<>>)

Next ==
    \/ MainSingleShot
    \/ MainInteractive
    \/ ReadLine
    \/ ReadEOF
    \/ ReadInterrupt

Spec == Init /\ [][Next]_vars

(***************************************************************************)
(* Function-level specification: the arguments are drawn from bounded sets *)
(* and each action applies one function of the program to them.            *)
(***************************************************************************)
\* (numerators stay below 2^31 / 45359237, so that every product with a factor of
\* the weight table fits the model checker's integers)
Values ==
    {Norm(n, d, 0) : n \in -MaxNum..MaxNum, d \in 1..MaxDen}
    \cup {Whole(32), Whole(100)}
    \cup {PosInf, NegInf, NaN}

Symbols ==
    DOMAIN LENGTH_TO_METER \cup DOMAIN WEIGHT_TO_KG \cup TEMP_KEYS
    \cup {Chars("c"), Chars("f"), Chars("k")}
    \cup {Chars("xx"), Chars("CM"), Chars("Kg"), Chars("M"), Chars("G"), <<>>}

NoResult == [ok |-> FALSE, val |-> NaN, err |-> "none"]

FnInit ==
    /\ fn = "none"
    /\ value \in Values
    /\ from_u \in Symbols
    /\ to_u \in Symbols
    /\ res = NoResult
    /\ back = NoResult
    /\ pc = "start" /\ argv = <<>> /\ event = "none" /\ line = <<>> /\ out = <<>>
    /\ status = -1 /\ parsed = 0 /\ calls = <<>> /\ nread = 0

ApplyDetect ==
    /\ fn = "none"
    /\ fn' = "detect_and_convert"
    /\ res' = detect_and_convert(value, from_u, to_u)
    /\ UNCHANGED <<value, from_u, to_u, back>>
    /\ UNCHANGED cliVars

ApplyLength ==
    /\ fn = "none"
    /\ fn' = "convert_length"
    /\ res' = convert_length(value, from_u, to_u)
    /\ UNCHANGED <<value, from_u, to_u, back>>
    /\ UNCHANGED cliVars

ApplyWeight ==
    /\ fn = "none"
    /\ fn' = "convert_weight"
    /\ res' = convert_weight(value, from_u, to_u)
    /\ UNCHANGED <<value, from_u, to_u, back>>
    /\ UNCHANGED cliVars

ApplyTemperature ==
    /\ fn = "none"
    /\ fn' = "convert_temperature"
    /\ res' = convert_temperature(value, from_u, to_u)
    /\ UNCHANGED <<value, from_u, to_u, back>>
    /\ UNCHANGED cliVars

\* convert the result of a successful convert_length back to the unit it came from
ApplyLengthBack ==
    /\ fn = "convert_length"
    /\ res.ok
    /\ fn' = "convert_length_back"
    /\ back' = convert_length(res.val, to_u, from_u)
    /\ UNCHANGED <<value, from_u, to_u, res>>
    /\ UNCHANGED cliVars

FnNext ==
    \/ ApplyDetect
    \/ ApplyLength
    \/ ApplyWeight
    \/ ApplyTemperature
    \/ ApplyLengthBack

FnSpec == FnInit /\ [][FnNext]_vars

(***************************************************************************)
(* Properties.  The sets and formulas below are written out from the       *)
(* documented behaviour and do not use the tables or the functions of the  *)
(* program, except where a property is about them.                         *)
(***************************************************************************)
LengthSymbols ==
    {Chars(u) : u \in {"m", "km", "cm", "mm", "mi", "yd", "ft", "in"}}
WeightSymbols ==
    {Chars(u) : u \in {"kg", "g", "mg", "lb", "oz", "ton"}}
TempSymbols == {Chars(u) : u \in {"C", "F", "K"}}
DispatcherError == "Units belong to different categories or are unsupported"

SameCategory(f, t) ==
    \/ f \in LengthSymbols /\ t \in LengthSymbols
    \/ f \in WeightSymbols /\ t \in WeightSymbols
    \/ Upper(f) \in TempSymbols /\ Upper(t) \in TempSymbols

\* C1: detect_and_convert returns a result exactly when both symbols are, as entered,
\* in the length table, or both in the weight table, or both in {C, F, K} after
\* uppercasing; otherwise it raises the dispatcher's error, never a per-category one.
C1_DispatchOutcome ==
    fn = "detect_and_convert" =>
        /\ res.ok <=> SameCategory(from_u, to_u)
        /\ ~res.ok => res.err = DispatcherError

C1_Witness ==
    /\ fn = "detect_and_convert"
    /\ from_u = Chars("CM")
    /\ to_u = Chars("m")
    /\ ~res.ok
    /\ res.err = DispatcherError

C9_Expected(v, f, t) ==
    CASE f = Chars("C") /\ t = Chars("F") ->
            FAdd(FDiv(FMul(v, Whole(9)), Whole(5)), Whole(32))
      [] f = Chars("F") /\ t = Chars("C") ->
            FDiv(FMul(FSub(v, Whole(32)), Whole(5)), Whole(9))
      [] f = Chars("C") /\ t = Chars("K") -> FAdd(v, Dec(27315, 2))
      [] f = Chars("K") /\ t = Chars("C") -> FSub(v, Dec(27315, 2))
      [] f = Chars("F") /\ t = Chars("K") ->
            FAdd(FDiv(FMul(FSub(v, Whole(32)), Whole(5)), Whole(9)), Dec(27315, 2))
      [] f = Chars("K") /\ t = Chars("F") ->
            FAdd(FDiv(FMul(FSub(v, Dec(27315, 2)), Whole(9)), Whole(5)), Whole(32))
      [] f = t -> v

\* C9: for each of the nine ordered pairs of temperature symbols, in any letter case,
\* convert_temperature returns the value of the defined formula; 0 C is 32 F, 100 C is
\* 212 F and 32 F is 0 C.
C9_TemperatureFormulas ==
    (/\ fn = "convert_temperature"
     /\ Upper(from_u) \in TempSymbols
     /\ Upper(to_u) \in TempSymbols) =>
        /\ res.ok
        /\ res.val = C9_Expected(value, Upper(from_u), Upper(to_u))
        /\ (Upper(from_u) = Chars("C") /\ Upper(to_u) = Chars("F") /\ value = Whole(0))
              => res.val = Whole(32)
        /\ (Upper(from_u) = Chars("C") /\ Upper(to_u) = Chars("F") /\ value = Whole(100))
              => res.val = Whole(212)
        /\ (Upper(from_u) = Chars("F") /\ Upper(to_u) = Chars("C") /\ value = Whole(32))
              => res.val = Whole(0)

C9_Witness ==
    /\ fn = "convert_temperature"
    /\ value = Whole(100)
    /\ from_u = Chars("c")
    /\ to_u = Chars("F")
    /\ res.ok
    /\ res.val = Whole(212)

Categories == {"length", "weight", "temperature"}

CategoryTest(c, f, t) ==
    CASE c = "length" -> f \in DOMAIN LENGTH_TO_METER /\ t \in DOMAIN LENGTH_TO_METER
      [] c = "weight" -> f \in DOMAIN WEIGHT_TO_KG /\ t \in DOMAIN WEIGHT_TO_KG
      [] c = "temperature" -> Upper(f) \in TEMP_KEYS /\ Upper(t) \in TEMP_KEYS

CategoryConvert(c, v, f, t) ==
    CASE c = "length" -> convert_length(v, f, t)
      [] c = "weight" -> convert_weight(v, f, t)
      [] c = "temperature" -> convert_temperature(v, f, t)

\* the dispatcher with its three tests tried in the order o
DispatchInOrder(o, v, f, t) ==
    IF CategoryTest(o[1], f, t) THEN CategoryConvert(o[1], v, f, t)
    ELSE IF CategoryTest(o[2], f, t) THEN CategoryConvert(o[2], v, f, t)
    ELSE IF CategoryTest(o[3], f, t) THEN CategoryConvert(o[3], v, f, t)
    ELSE Raise(DispatcherError)

Orders == {o \in [1..3 -> Categories] : o[1] # o[2] /\ o[1] # o[3] /\ o[2] # o[3]}

\* C10: no symbol is a key of both tables, no key of either table uppercases to C, F
\* or K; so at most one of the dispatcher's tests holds for a pair of symbols and the
\* result of detect_and_convert is the same whatever the order of the tests.
C10_CategoriesDisjoint ==
    /\ DOMAIN LENGTH_TO_METER \cap DOMAIN WEIGHT_TO_KG = {}
    /\ \A u \in DOMAIN LENGTH_TO_METER \cup DOMAIN WEIGHT_TO_KG : Upper(u) \notin TEMP_KEYS
    /\ Cardinality({c \in Categories : CategoryTest(c, from_u, to_u)}) <= 1
    /\ fn = "detect_and_convert" =>
          \A o \in Orders : DispatchInOrder(o, value, from_u, to_u) = res

C10_Witness ==
    /\ fn = "detect_and_convert"
    /\ from_u = Chars("k")
    /\ to_u = Chars("K")
    /\ res.ok
    /\ {c \in Categories : CategoryTest(c, from_u, to_u)} = {"temperature"}

HelpTokens == {Chars(a) : a \in {"-h", "--help", "help"}}
ExitWords == {Chars(w) : w \in {"exit", "quit"}}
ControlWords == {Chars(w) : w \in {"exit", "quit", "help", "h", "?"}}

ReachesParsing == argv # <<>> /\ Len(argv) >= 3 /\ argv[1] \notin HelpTokens

\* C2: the status returned by main is 0, 1 or 2: 1 exactly when number parsing is
\* reached and the first argument is not a number, 2 exactly when it parses and the
\* dispatcher fails on the unit pair, 0 otherwise; the number is checked first.
C2_ExitStatus ==
    pc = "done" =>
        /\ status \in {0, 1, 2}
        /\ status = 1 <=> (ReachesParsing /\ ~ParseFloat(argv[1]).ok)
        /\ status = 2 <=> (/\ ReachesParsing
                           /\ ParseFloat(argv[1]).ok
                           /\ ~SameCategory(argv[2], argv[3]))

C2_Witness ==
    /\ pc = "done"
    /\ argv = <<Chars("abc"), Chars("cm"), Chars("xx")>>
    /\ status = 1

\* what the positional reading of three arguments gives: <<status, printed lines>>
Positional(a0, a1, a2) ==
    IF ~ParseFloat(a0).ok THEN <<1, <<FirstArgMustBeNumber>>>>
    ELSE IF ~detect_and_convert(ParseFloat(a0).val, a1, a2).ok
    THEN <<2, <<ErrorLine(DispatcherError)>>>>
    ELSE <<0, <<ResultLine(ParseFloat(a0).val, a1, a2,
                            detect_and_convert(ParseFloat(a0).val, a1, a2).val, ".6g")>>>>

PositionalOutcome ==
    /\ <<status, out>> = Positional(argv[1], argv[2], argv[3])
    /\ parsed = 1
    /\ calls # <<>> => (calls[1][2] = argv[2] /\ calls[1][3] = argv[3])

SameAsFirstThree ==
    /\ status = main_single_shot(SubSeq(argv, 1, 3)).status
    /\ out = main_single_shot(SubSeq(argv, 1, 3)).out

\* C3 as stated: for every list of three or more arguments, argument 0 is parsed as
\* the number and arguments 1 and 2 go to the dispatcher, the rest being ignored.
C3_Original ==
    (pc = "done" /\ Len(argv) >= 3) => (PositionalOutcome /\ SameAsFirstThree)

\* C3, amended: for every list of three or more arguments, the status and the output
\* are those of the list cut to its first three arguments; when the first argument is
\* not -h, --help or help, argument 0 is parsed as the number and arguments 1 and 2 go
\* to the dispatcher verbatim; when it is, the help text is printed with status 0 and
\* nothing is parsed.
C3_PositionalUnlessHelp ==
    (pc = "done" /\ Len(argv) >= 3) =>
        /\ SameAsFirstThree
        /\ argv[1] \notin HelpTokens => PositionalOutcome
        /\ argv[1] \in HelpTokens =>
              (status = 0 /\ out = print_help /\ parsed = 0 /\ calls = <<>>)

C3_Witness ==
    /\ pc = "done"
    /\ argv = <<Chars("100"), Chars("cm"), Chars("m"), Chars("kg")>>
    /\ status = 0
    /\ out = <<ResultLine(Whole(100), Chars("cm"), Chars("m"), Whole(1), ".6g")>>

\* C4: for every non-empty list of fewer than three arguments main prints the help
\* text and returns 0, without parsing the value and without calling the dispatcher.
C4_FewArgumentsHelp ==
    (pc = "done" /\ argv # <<>> /\ Len(argv) < 3) =>
        /\ status = 0
        /\ out = print_help
        /\ parsed = 0
        /\ calls = <<>>

C4_Witness ==
    /\ pc = "done"
    /\ argv = <<Chars("abc"), Chars("cm")>>
    /\ status = 0
    /\ out = print_help

\* C5: in interactive mode, after any input line that is not exit or quit the loop
\* goes on: main has not returned and the shell is at the read of the next line.
C5_LoopContinues ==
    (event = "line" /\ Lower(Strip(line)) \notin ExitWords) =>
        /\ pc = "loop"
        /\ status = -1

C5_Witness ==
    /\ pc = "loop"
    /\ nread = 2
    /\ event = "line"
    /\ line = Chars("1 cm kg")
    /\ out = <<ErrorLine(DispatcherError)>>

\* C6: end-of-input, an interrupt at the read, and exit or quit in any letter case end
\* the loop and main returns 0; main without arguments never returns another status.
C6_CleanExit ==
    /\ (\/ event \in {"eof", "interrupt"}
        \/ event = "line" /\ Lower(Strip(line)) \in ExitWords)
          => (pc = "done" /\ status = 0)
    /\ argv = <<>> => status \in {-1, 0}
    /\ (argv = <<>> /\ pc = "done") => status = 0

C6_Witness ==
    /\ pc = "done"
    /\ argv = <<>>
    /\ event = "interrupt"
    /\ nread = 3
    /\ status = 0

UsageOnly == out = <<Usage>> /\ parsed = 0 /\ calls = <<>>

DispatchedOnlyOnThreeTokens ==
    (event = "line" /\ calls # <<>>) =>
        (Len(Split(line)) = 3 /\ ParseFloat(Split(line)[1]).ok)

\* C7 as stated: every non-empty line that is not a control word and does not split
\* into exactly 3 tokens gets the usage reminder and nothing else.
C7_Original ==
    /\ (/\ event = "line"
        /\ line # <<>>
        /\ Lower(Strip(line)) \notin ControlWords
        /\ Len(Split(line)) # 3) => UsageOnly
    /\ DispatchedOnlyOnThreeTokens

\* C7, amended: every line that is non-empty after stripping its surrounding
\* whitespace, is not a control word and does not split into exactly 3 tokens gets the
\* usage reminder and nothing else; a line of whitespace only prints nothing; the
\* dispatcher is called only for lines of exactly 3 tokens whose first token parses.
C7_UsageReminder ==
    /\ (/\ event = "line"
        /\ Strip(line) # <<>>
        /\ Lower(Strip(line)) \notin ControlWords
        /\ Len(Split(line)) # 3) => UsageOnly
    /\ (event = "line" /\ Strip(line) = <<>>) => (out = <<>> /\ parsed = 0 /\ calls = <<>>)
    /\ DispatchedOnlyOnThreeTokens

C7_Witness ==
    /\ pc = "loop"
    /\ event = "line"
    /\ line = Chars("1 2 3 4")
    /\ out = <<Usage>>
    /\ calls = <<>>

====
